---------------------------- MODULE Spec2Model ----------------------------
(***************************************************************************)
(* A model of main.py (ITG Scalper + Hammer logic v3.3): the per-symbol    *)
(* position execution and stop supervision engine, for ONE symbol.         *)
(*                                                                         *)
(* Threads.  Every webhook alert is handled on a thread of its own         *)
(* (tv, line 453); stop_watcher runs on a thread started by                *)
(* ensure_watcher.  A step of the model is one call to the broker (or one  *)
(* sleep, or one critical section of `lock`) together with the local       *)
(* code that follows it up to the next such call: those calls are where    *)
(* the interpreter hands control to another thread.                        *)
(*                                                                         *)
(* Prices are integers in units of 0.0001 dollar, so that round_tick is    *)
(* the identity below one dollar and rounds to a multiple of 100 units     *)
(* (one cent) from one dollar on.  Products such as high * 1.002 are       *)
(* carried as exact fractions n/d and rounded half-to-even.                *)
(*                                                                         *)
(* The broker (Alpaca) is the environment: it holds the position and the   *)
(* open orders and fills them when it pleases.  The market moves freely    *)
(* between any two calls, so every market data call answers with any       *)
(* price of the run (0: the call raised and the helper returned 0).        *)
(***************************************************************************)
EXTENDS Integers, FiniteSets, Sequences, TLC

(***************************************************************************)
(* Bounds of the model.                                                    *)
(***************************************************************************)
MaxAlerts  == 2       \* alerts per run when two alerts may be handled at once
SeqAlerts  == 3       \* alerts per run when they are handled one after the other
LongAlerts == 4       \* alerts per run of the longest scenarios
MaxLadder  == 2       \* repricing iterations explored per managed_exit call

(***************************************************************************)
(* Program constants.                                                      *)
(***************************************************************************)
Dollar          == 10000   \* round_tick: px < 1
Cent            == 100     \* round(px, 2) in units of 0.0001
LossCap         == 2       \* can_trade / record_loss
MaxRangePct     == 11      \* valid_candle_range
RetryCap        == 3       \* attempts >= 3
RetryLast       == 2       \* attempts < 2
MaxCandles      == 3       \* "max_candles": 3
StepSub         == 5       \* 0.0005: ladder step below one dollar
StepDollar      == 200     \* 0.02: ladder step from one dollar on
GuardPct        == 3       \* entry_price * 0.03
BufferPerMille  == 2       \* ENTRY_BUFFER_PCT = 0.002

None == "None"

\* A dictionary's entry for the symbol (or a variable that may be None) is a set:
\* empty when the key is absent, else holding the value.
Absent  == {}
Put(v)  == {v}
Has(d)  == d # {}
Val(d)  == CHOOSE v \in d : TRUE
Get(d, default) == IF d = {} THEN default ELSE Val(d)

Handlers == {"h1", "h2"}
Watchers == {"w1", "w2"}
Threads  == Handlers \cup Watchers

Min(a, b) == IF a <= b THEN a ELSE b

(***************************************************************************)
(* round(n/d) to the nearest integer, ties to the even one (Python's       *)
(* round on an exactly representable value).  d > 0.                       *)
(***************************************************************************)
RoundDiv(n, d) ==
    LET q == n \div d
        r == n % d
    IN  IF 2 * r < d THEN q
        ELSE IF 2 * r > d THEN q + 1
        ELSE IF q % 2 = 0 THEN q ELSE q + 1

\* round_tick(n/d): 4 decimals below one dollar, 2 decimals from one dollar on.
RoundTickQ(n, d) ==
    IF n < Dollar * d THEN RoundDiv(n, d) ELSE Cent * RoundDiv(n, Cent * d)

round_tick(px) == RoundTickQ(px, 1)

\* within_vol_window() reads the wall clock: an input of the step that calls it.
\* get_stop(entry_price, signal_low) with the clock's answer inwin.
get_stop(entry_price, signal_low, inwin) ==
    IF inwin
    THEN RoundTickQ(Min(signal_low * 100, entry_price * (100 - GuardPct)), 100)
    ELSE round_tick(Min(signal_low, entry_price))

\* valid_candle_range(close_p, low_p): rng = (close - low) / close * 100 <= 11
\* (valid_candle_range_loose: the limit taken for the candle's 15 %)
valid_candle_range_loose(close_p, low_p) ==
    IF close_p # 0 THEN (close_p - low_p) * 100 <= 15 * close_p ELSE TRUE

valid_candle_range(close_p, low_p) ==
    IF close_p # 0 THEN (close_p - low_p) * 100 <= MaxRangePct * close_p ELSE TRUE

\* round_tick(high * (1 + ENTRY_BUFFER_PCT))
buffered_entry(high) == RoundTickQ(high * (1000 + BufferPerMille), 1000)


(***************************************************************************)
(* Inputs: the candles and alerts the webhook is sent.                     *)
(***************************************************************************)
\* close 10.00, low 9.20 (8 % range), high 10.00
CandleOk   == [high |-> 100000, low |-> 92000, close |-> 100000]
\* close 10.00, low 8.50 (15 % range)
CandleWide == [high |-> 100000, low |-> 85000, close |-> 100000]
\* data.get(..., 0): the candle of an alert that carries none
CandleNone == [high |-> 0, low |-> 0, close |-> 0]

Sources == {"ITG_SCALPER", "HAMMER_ENGULFING", "GENERIC"}
\* line 423: the sources whose alerts progress a pending reversal
PendingSources ==
    {"ITG_SCALPER", "HAMMER_ENGULFING", "GENERIC", "GENERIC_EXIT", "ITG_SCALPER_ADD"}

MkAlert(act, src, c, exitp, qty) ==
    [act |-> act, src |-> src, high |-> c.high, low |-> c.low, close |-> c.close,
     exitp |-> exitp, qty |-> qty]

NoAlert == [act |-> None]

(***************************************************************************)
(* State.                                                                  *)
(***************************************************************************)
VARIABLES
    pc,                 \* thread -> where it stands ("idle": no such thread runs)
    alert,              \* handler thread -> the alert it handles (data)
    loc,                \* thread -> its local variables
    stops,              \* stops[sym]: absent or [stop, entry]
    watchers,           \* watchers[sym]: absent or the Thread object last registered
    open_add_tracker,   \* open_add_tracker.get(sym)
    loss_tracker,       \* loss_tracker.get(sym, 0)
    attempt_tracker,    \* attempt_tracker: key -> absent or count
    last_signal_price,  \* last_signal_price: key -> absent or price
    state_tracker,      \* state_tracker[sym] as init_state creates it
    pending_reversal,   \* pending_reversal[sym]: absent or the dict (oid: its identity)
    lock,               \* None or the thread inside `with lock`
    position,           \* broker: api.get_position(sym).qty
    cost,               \* broker: what the shares held were bought for (qty * price)
    orders,             \* broker: the open orders, one record per side and price
    alertsLeft,         \* alerts the webhook may still receive
    arrival,            \* handler -> what held when its alert arrived (see NoArrival)
    addsAdmitted        \* ADD alerts that submitted an order since the position was flat

vars == <<pc, alert, loc, stops, watchers, open_add_tracker, loss_tracker,
          attempt_tracker, last_signal_price, state_tracker, pending_reversal,
          lock, position, cost, orders, alertsLeft, arrival, addsAdmitted>>

prog   == <<stops, watchers, open_add_tracker, loss_tracker, attempt_tracker,
            last_signal_price, state_tracker, pending_reversal>>
broker == <<position, cost, orders>>

TrackerKeys == {"sym", "sym_ADD"}

\* held: the position was non-flat when the alert arrived and has been since;
\* capped: the loss count had reached the cap when the alert arrived
NoArrival == [held |-> FALSE, capped |-> FALSE]

DefaultLoc ==
    [pr |-> Absent, qty |-> 0, entry |-> 0, low |-> 0, source |-> None,
     attempts |-> 0, stop |-> 0, remaining |-> 0, filled |-> 0, ret |-> None,
     px |-> 0, step |-> 0, mark |-> FALSE, target |-> 0, hint |-> 0,
     stop_price |-> 0, iter |-> 0, sent |-> Absent, sig |-> NoAlert,
     loss0 |-> 0, closed |-> FALSE, last |-> 0, entered |-> FALSE]

InitN(n) ==
    /\ pc = [t \in Threads |-> "idle"]
    /\ alert = [h \in Handlers |-> NoAlert]
    /\ loc = [t \in Threads |-> DefaultLoc]
    /\ stops = Absent
    /\ watchers = Absent
    /\ open_add_tracker = FALSE
    /\ loss_tracker = 0
    /\ attempt_tracker = [k \in TrackerKeys |-> Absent]
    /\ last_signal_price = [k \in TrackerKeys |-> Absent]
    /\ state_tracker = [first_trade_done |-> FALSE, scalper_confirmed |-> FALSE,
                        waiting_for_reversal |-> FALSE]
    /\ pending_reversal = Absent
    /\ lock = None
    /\ position = 0
    /\ cost = 0
    /\ orders = {}
    /\ alertsLeft = n
    /\ arrival = [h \in Handlers |-> NoArrival]
    /\ addsAdmitted = 0

(***************************************************************************)
(* The broker's API as the helpers of main.py see it.                      *)
(***************************************************************************)
\* latest_bid_ask(sym) with the market at p: (0, 0) when the call raises (p = 0)
latest_bid_ask(p) == IF p > 0 THEN <<p, p + Cent>> ELSE <<0, 0>>

\* last_trade_price(sym) with the market at p: the bid, else the last trade (which
\* raises when the quote did), else 0
last_trade_price(p) == IF latest_bid_ask(p)[1] > 0 THEN latest_bid_ask(p)[1] ELSE 0

\* safe_qty(sym)
safe_qty == position

\* avg_entry_price(sym): the broker's average, 0 when there is no position
\* (api.get_position raises); a sale leaves the average as it is
avg_entry_price == IF position > 0 THEN cost \div position ELSE 0

\* cancel_all(sym): every open order of the symbol, buys and sells alike
cancel_all == {}

\* api.submit_order: the order joins the book; an order of no shares or at no
\* price is refused (the exception is logged by submit_limit)
Book(os, side, qty, px) ==
    IF qty <= 0 \/ px <= 0 THEN os
    ELSE IF \E o \in os : o.side = side /\ o.px = px
         THEN {IF o.side = side /\ o.px = px
               THEN [o EXCEPT !.qty = o.qty + qty] ELSE o : o \in os}
         ELSE os \cup {[side |-> side, px |-> px, qty |-> qty]}

\* submit_limit(side, sym, qty, px): the limit price is round_tick(px)
submit_limit(os, side, qty, px) == Book(os, side, qty, round_tick(px))

(***************************************************************************)
(* The environment: fills.                                                 *)
(***************************************************************************)
Take(os, o, k) ==
    (os \ {o}) \cup (IF o.qty > k THEN {[o EXCEPT !.qty = o.qty - k]} ELSE {})

\* a resting buy fills, in part or whole
FillBuy ==
    \E o \in orders : \E k \in 1..o.qty :
        /\ o.side = "buy"
        /\ orders' = Take(orders, o, k)
        /\ position' = position + k
        /\ cost' = cost + k * o.px
        /\ UNCHANGED <<pc, alert, loc, prog, lock, alertsLeft, arrival,
                       addsAdmitted>>

\* a resting sell fills, in part or whole; no short selling
FillSell ==
    \E o \in orders : \E k \in 1..Min(o.qty, position) :
        /\ o.side = "sell"
        /\ orders' = Take(orders, o, k)
        /\ position' = position - k
        /\ cost' = (cost * (position - k)) \div position
        /\ arrival' = IF position' = 0
                       THEN [h \in Handlers |-> [arrival[h] EXCEPT !.held = FALSE]]
                       ELSE arrival
        /\ addsAdmitted' = IF position' = 0 THEN 0 ELSE addsAdmitted
        /\ UNCHANGED <<pc, alert, loc, prog, lock, alertsLeft>>

(***************************************************************************)
(* Thread bookkeeping.                                                     *)
(***************************************************************************)
\* thread t goes on at p with locals l; at "idle" the thread has ended
Jump(t, p, l, base) ==
    /\ pc' = [pc EXCEPT ![t] = p]
    /\ loc' = [base EXCEPT ![t] = IF p = "idle" THEN DefaultLoc ELSE l]
    /\ alert' = IF p = "idle" /\ t \in Handlers
                THEN [alert EXCEPT ![t] = NoAlert] ELSE alert
    /\ arrival' = IF p = "idle" /\ t \in Handlers
                  THEN [arrival EXCEPT ![t] = NoArrival] ELSE arrival

\* handle_alert, lines 426-439: where the alert's action sends the thread
ActPc(a) ==
    CASE a.act = "BUY"  -> "eb_gate"
      [] a.act = "ADD"  -> "ea_gate"
      [] a.act = "EXIT" -> "me_start"

\* handle_exit(sym, qty, exitp, src): managed_exit(sym, qty_hint, exit_price, False, source)
ActLoc(a) ==
    IF a.act = "EXIT"
    THEN [DefaultLoc EXCEPT !.hint = a.qty, !.target = a.exitp, !.mark = FALSE,
                            !.ret = "idle"]
    ELSE DefaultLoc

\* after execute_buy returns: line 429 calls the broker only for a scalper alert
RetBuy(a) == IF a.src = "ITG_SCALPER" THEN "ha_post" ELSE "idle"

\* the call _place_entry_with_retry(sym, qty, entry, low, source), returning to ret
CallPlace(qty, entry, low, source, ret, sig) ==
    [DefaultLoc EXCEPT !.qty = qty, !.entry = entry, !.low = low,
                       !.source = source, !.ret = ret, !.sig = sig]

\* can_trade(sym)
can_trade == loss_tracker < LossCap

\* the identity of a new pending_reversal dict: one no thread still refers to
FreshOid ==
    LET used == {d.oid : d \in pending_reversal \cup UNION {loc[u].pr : u \in Threads}}
    IN  CHOOSE n \in 0..(Cardinality(Threads) + 1) :
            n \notin used /\ \A m \in 0..(n - 1) : m \in used

NewPending(entry, low, qty, sig) ==
    [entry |-> entry, low |-> low, source |-> "HAMMER_ENGULFING", qty |-> qty,
     candles_waited |-> 0, max_candles |-> MaxCandles, oid |-> FreshOid, sig |-> sig]

\* the candle an order or a pending reversal was computed from
SigOf(a) == [close |-> a.close, low |-> a.low, high |-> a.high, src |-> a.src]

(***************************************************************************)
(* tv + handle_alert, lines 409-424: a new thread parses the alert and, if *)
(* a reversal is pending, takes the dict for check_pending_reversal.       *)
(***************************************************************************)
tv(t, alerts) ==
    /\ pc[t] = "idle"
    /\ t = CHOOSE h \in Handlers : pc[h] = "idle"
    /\ alertsLeft > 0
    /\ \E a \in alerts :
        /\ alert' = [alert EXCEPT ![t] = a]
        /\ arrival' = [arrival EXCEPT ![t] = [held   |-> position > 0,
                                               capped |-> ~can_trade]]
        /\ IF Has(pending_reversal) /\ a.src \in PendingSources
           THEN /\ pc' = [pc EXCEPT ![t] = "cpr"]
                /\ loc' = [loc EXCEPT ![t] = [DefaultLoc EXCEPT !.pr = pending_reversal]]
           ELSE /\ pc' = [pc EXCEPT ![t] = ActPc(a)]
                /\ loc' = [loc EXCEPT ![t] = ActLoc(a)]
    /\ alertsLeft' = alertsLeft - 1
    /\ UNCHANGED <<prog, lock, broker, addsAdmitted>>

(***************************************************************************)
(* check_pending_reversal, lines 211-226.                                  *)
(***************************************************************************)
check_pending_reversal(t, prices) ==
    /\ pc[t] = "cpr"
    /\ \E p \in prices :
       LET pr      == Val(loc[t].pr)
           last    == last_trade_price(p)
           current == Has(pending_reversal) /\ Val(pending_reversal).oid = pr.oid
           waited  == (IF current THEN Val(pending_reversal).candles_waited
                       ELSE pr.candles_waited) + 1
           bumped  == IF current
                      THEN Put([Val(pending_reversal) EXCEPT !.candles_waited = waited])
                      ELSE pending_reversal
           aliases == [u \in Threads |->
                         IF Has(loc[u].pr) /\ Val(loc[u].pr).oid = pr.oid
                         THEN [loc[u] EXCEPT !.pr =
                                 Put([Val(loc[u].pr) EXCEPT !.candles_waited = waited])]
                         ELSE loc[u]]
       IN  IF last >= pr.entry
           THEN /\ Jump(t, "pe_guard",
                        [CallPlace(pr.qty, pr.entry, pr.low, pr.source, "cpr_ret",
                                   pr.sig) EXCEPT !.pr = loc[t].pr],
                        loc)
                /\ pending_reversal' = pending_reversal
           ELSE /\ Jump(t, ActPc(alert[t]), ActLoc(alert[t]), aliases)
                /\ pending_reversal' =
                       IF waited >= pr.max_candles THEN Absent ELSE bumped
    /\ UNCHANGED <<stops, watchers, open_add_tracker, loss_tracker, attempt_tracker,
                   last_signal_price, state_tracker, lock, broker, alertsLeft,
                   addsAdmitted>>

\* line 217, after the stored BUY was placed: pending_reversal.pop(sym, None)
check_pending_reversal_pop(t) ==
    /\ pc[t] = "cpr_ret"
    /\ pending_reversal' = Absent
    /\ Jump(t, ActPc(alert[t]), ActLoc(alert[t]), loc)
    /\ UNCHANGED <<stops, watchers, open_add_tracker, loss_tracker, attempt_tracker,
                   last_signal_price, state_tracker, lock, broker, alertsLeft,
                   addsAdmitted>>

(***************************************************************************)
(* execute_buy, lines 284-317: the gates, then the scalper entry.          *)
(***************************************************************************)
execute_buy(t) ==
    /\ pc[t] = "eb_gate"
    /\ LET a   == alert[t]
           st  == state_tracker
           out == RetBuy(a)
       IN  IF ~can_trade \/ safe_qty > 0
           THEN /\ Jump(t, out, DefaultLoc, loc)
                /\ state_tracker' = st
           ELSE IF ~valid_candle_range(a.close, a.low)
           THEN /\ Jump(t, out, DefaultLoc, loc)
                /\ state_tracker' =
                     IF ~st.first_trade_done /\ a.src = "ITG_SCALPER"
                     THEN [st EXCEPT !.waiting_for_reversal = TRUE] ELSE st
           ELSE IF \/ st.first_trade_done /\ a.src = "HAMMER_ENGULFING"
                      /\ ~st.scalper_confirmed
                   \/ ~st.first_trade_done /\ st.waiting_for_reversal
                      /\ a.src = "ITG_SCALPER"
           THEN /\ Jump(t, out, DefaultLoc, loc)
                /\ state_tracker' = st
           ELSE IF a.src = "ITG_SCALPER"
           THEN /\ Jump(t, "pe_guard",
                        CallPlace(a.qty, round_tick(a.close), a.low, a.src, out, SigOf(a)),
                        loc)
                /\ state_tracker' = st
           ELSE /\ Jump(t, "eb_hammer",
                        [DefaultLoc EXCEPT !.entry = buffered_entry(a.high)], loc)
                /\ state_tracker' = st
    /\ UNCHANGED <<stops, watchers, open_add_tracker, loss_tracker, attempt_tracker,
                   last_signal_price, pending_reversal, lock, broker, alertsLeft,
                   addsAdmitted>>

(***************************************************************************)
(* execute_buy, lines 319-350: the hammer/engulfing path.                  *)
(***************************************************************************)
execute_buy_hammer(t, prices) ==
    /\ pc[t] = "eb_hammer"
    /\ \E p \in prices :
       LET a     == alert[t]
           entry == loc[t].entry
           last  == last_trade_price(p)
       IN  IF last >= entry
           THEN /\ Jump(t, "pe_guard",
                        CallPlace(a.qty, entry, a.low, a.src, RetBuy(a), SigOf(a)), loc)
                /\ pending_reversal' = pending_reversal
           ELSE /\ Jump(t, RetBuy(a), DefaultLoc, loc)
                /\ IF ~Has(pending_reversal) \/ Val(pending_reversal).entry # entry
                   THEN /\ pending_reversal' =
                              Put(NewPending(entry, a.low, a.qty, SigOf(a)))
                   ELSE /\ pending_reversal' = pending_reversal
    /\ UNCHANGED <<stops, watchers, open_add_tracker, loss_tracker, attempt_tracker,
                   last_signal_price, state_tracker, lock, broker, alertsLeft,
                   addsAdmitted>>

\* handle_alert, lines 429-435: a scalper BUY that left a position confirms
handle_alert_confirm(t) ==
    /\ pc[t] = "ha_post"
    /\ IF safe_qty > 0
       THEN /\ state_tracker' = [state_tracker EXCEPT !.scalper_confirmed = TRUE,
                                                      !.waiting_for_reversal = FALSE]
            /\ pending_reversal' = Absent
       ELSE /\ UNCHANGED <<state_tracker, pending_reversal>>
    /\ Jump(t, "idle", DefaultLoc, loc)
    /\ UNCHANGED <<stops, watchers, open_add_tracker, loss_tracker, attempt_tracker,
                   last_signal_price, lock, broker, alertsLeft, addsAdmitted>>

(***************************************************************************)
(* ensure_watcher, lines 185-189, one critical section of `lock`: the      *)
(* thread it starts, or None when the registered watcher is alive.         *)
(***************************************************************************)
is_alive(w) == pc[w] # "idle"

\* a new Thread object (None when the model has no thread left to run it)
FreshThread ==
    IF \E w \in Watchers : ~is_alive(w)
    THEN CHOOSE w \in Watchers : ~is_alive(w) ELSE None

\* (ensure_watcher_unchecked: the registered watcher is not looked at)
ensure_watcher_unchecked == FreshThread

ensure_watcher ==
    IF Has(watchers) /\ is_alive(Val(watchers)) THEN None ELSE FreshThread

\* the thread ensure_watcher started (if any) begins stop_watcher
Started(w, pcs) == IF w = None THEN pcs ELSE [pcs EXCEPT ![w] = "sw_poll"]

(***************************************************************************)
(* reset_attempt_if_new_signal, lines 194-200, for the key k.              *)
(***************************************************************************)
IsNewSignal(k, price) ==
    ~Has(last_signal_price[k]) \/ Val(last_signal_price[k]) # price

ResetAttempts(k, price) ==
    IF IsNewSignal(k, price) THEN [attempt_tracker EXCEPT ![k] = Put(0)]
    ELSE attempt_tracker

ResetSignalPrice(k, price) ==
    IF IsNewSignal(k, price) THEN [last_signal_price EXCEPT ![k] = Put(price)]
    ELSE last_signal_price

(***************************************************************************)
(* _place_entry_with_retry, lines 231-277.                                 *)
(***************************************************************************)
\* lines 233-244: price chase guard, attempt counter, stop
place_entry_guard(t, prices) ==
    /\ pc[t] = "pe_guard"
    /\ \E p \in prices :
       LET l        == loc[t]
           last_px  == last_trade_price(p)
           at       == ResetAttempts("sym", l.entry)
           attempts == Get(at["sym"], 0)
       IN  IF last_px > l.entry
           THEN /\ Jump(t, l.ret, DefaultLoc, loc)
                /\ UNCHANGED <<attempt_tracker, last_signal_price>>
           ELSE /\ attempt_tracker' = at
                /\ last_signal_price' = ResetSignalPrice("sym", l.entry)
                /\ IF attempts >= RetryCap
                   THEN /\ Jump(t, l.ret, DefaultLoc, loc)
                   ELSE /\ \E inwin \in BOOLEAN :
                              Jump(t, "pe_submit",
                                   [l EXCEPT !.attempts = attempts, !.low = 0,
                                             !.stop = get_stop(l.entry, l.low, inwin)],
                                   loc)
    /\ UNCHANGED <<stops, watchers, open_add_tracker, loss_tracker, state_tracker,
                   pending_reversal, lock, broker, alertsLeft, addsAdmitted>>

\* lines 247-250: the first order, then the settle sleep
place_entry_submit(t) ==
    /\ pc[t] = "pe_submit"
    /\ LET l == loc[t]
       IN  /\ orders' = submit_limit(orders, "buy", l.qty, l.entry)
           /\ attempt_tracker' = [attempt_tracker EXCEPT !["sym"] = Put(l.attempts + 1)]
           /\ Jump(t, "pe_check", l, loc)
    /\ UNCHANGED <<stops, watchers, open_add_tracker, loss_tracker, last_signal_price,
                   state_tracker, pending_reversal, lock, position, cost,
                   alertsLeft, addsAdmitted>>

\* lines 251-256: the fill after the sleep decides between retry and cancel
place_entry_check(t) ==
    /\ pc[t] = "pe_check"
    /\ LET l          == loc[t]
           filled_qty == safe_qty
           remaining  == l.qty - filled_qty
       IN  IF filled_qty < l.qty
           THEN IF l.attempts < RetryLast /\ remaining > 0
                THEN /\ attempt_tracker' =
                            [attempt_tracker EXCEPT !["sym"] = Put(l.attempts + 1)]
                     /\ Jump(t, "pe_retry",
                             [l EXCEPT !.filled = filled_qty, !.remaining = remaining,
                                       !.attempts = 0],
                             loc)
                ELSE /\ attempt_tracker' = attempt_tracker
                     /\ Jump(t, "pe_cancel",
                             [l EXCEPT !.filled = filled_qty, !.attempts = 0], loc)
           ELSE /\ attempt_tracker' = attempt_tracker
                /\ Jump(t, "pe_stops",
                        [l EXCEPT !.filled = filled_qty, !.attempts = 0], loc)
    /\ UNCHANGED <<stops, watchers, open_add_tracker, loss_tracker, last_signal_price,
                   state_tracker, pending_reversal, lock, broker, alertsLeft,
                   addsAdmitted>>

\* line 257: the remaining quantity is submitted again (the first order is left
\* at the broker); line 260: the partial fill is accepted and the rest cancelled
place_entry_rest(t) ==
    /\ pc[t] \in {"pe_retry", "pe_cancel"}
    /\ LET l == loc[t]
       IN  /\ orders' = IF pc[t] = "pe_retry"
                         THEN submit_limit(orders, "buy", l.remaining, l.entry)
                         ELSE cancel_all
           /\ Jump(t, "pe_stops", [l EXCEPT !.remaining = 0], loc)
    /\ UNCHANGED <<prog, lock, position, cost, alertsLeft, addsAdmitted>>

\* lines 263-265: with a position, the stop is recorded under the lock
place_entry_stops(t) ==
    /\ pc[t] = "pe_stops"
    /\ LET l == loc[t]
       IN  IF safe_qty > 0
           THEN /\ lock = None
                /\ stops' = Put([stop |-> l.stop, entry |-> l.entry])
                /\ Jump(t, "pe_watch", [l EXCEPT !.entry = 0], loc)
           ELSE /\ stops' = stops
                /\ Jump(t, l.ret,
                        [DefaultLoc EXCEPT !.entered = (l.ret = "ha_post")], loc)
    /\ UNCHANGED <<watchers, open_add_tracker, loss_tracker, attempt_tracker,
                   last_signal_price, state_tracker, pending_reversal, lock, broker,
                   alertsLeft, addsAdmitted>>

\* lines 266-277: the watcher, then the sequence flags
place_entry_watch(t) ==
    /\ pc[t] = "pe_watch"
    /\ lock = None
    /\ LET l  == loc[t]
           w  == ensure_watcher
           st == state_tracker
       IN  /\ watchers' = IF w = None THEN watchers ELSE Put(w)
           /\ state_tracker' =
                IF ~st.first_trade_done
                THEN [first_trade_done |-> TRUE,
                      scalper_confirmed |->
                          (st.scalper_confirmed \/ l.source = "ITG_SCALPER"),
                      waiting_for_reversal |-> FALSE]
                ELSE st
           /\ pc' = Started(w, [pc EXCEPT ![t] = l.ret])
           /\ loc' = [loc EXCEPT ![t] = [DefaultLoc EXCEPT
                                           !.entered = (l.ret = "ha_post")]]
           /\ alert' = IF l.ret = "idle" THEN [alert EXCEPT ![t] = NoAlert] ELSE alert
           /\ arrival' = IF l.ret = "idle" THEN [arrival EXCEPT ![t] = NoArrival]
                         ELSE arrival
    /\ UNCHANGED <<stops, open_add_tracker, loss_tracker, attempt_tracker,
                   last_signal_price, pending_reversal, lock, broker, alertsLeft,
                   addsAdmitted>>

(***************************************************************************)
(* execute_add, lines 352-400.                                             *)
(***************************************************************************)
\* lines 357-367: the gates of an ADD
execute_add(t) ==
    /\ pc[t] = "ea_gate"
    /\ LET a == alert[t]
       IN  IF \/ safe_qty <= 0 \/ open_add_tracker
              \/ ~valid_candle_range(a.close, a.low)
              \/ a.src = "HAMMER_ENGULFING" /\ ~state_tracker.scalper_confirmed
           THEN /\ Jump(t, "idle", DefaultLoc, loc)
           ELSE /\ Jump(t, "ea_price",
                        [DefaultLoc EXCEPT !.qty = a.qty,
                                           !.entry = buffered_entry(a.high)], loc)
    /\ UNCHANGED <<prog, lock, broker, alertsLeft, addsAdmitted>>

\* lines 368-379: price chase guard and the ADD's own attempt counter
execute_add_guard(t, prices) ==
    /\ pc[t] = "ea_price"
    /\ \E p \in prices :
       LET l        == loc[t]
           last     == last_trade_price(p)
           at       == ResetAttempts("sym_ADD", l.entry)
           attempts == Get(at["sym_ADD"], 0)
       IN  IF last > l.entry
           THEN /\ Jump(t, "idle", DefaultLoc, loc)
                /\ UNCHANGED <<attempt_tracker, last_signal_price>>
           ELSE /\ attempt_tracker' = at
                /\ last_signal_price' = ResetSignalPrice("sym_ADD", l.entry)
                /\ IF attempts >= RetryCap
                   THEN /\ Jump(t, "idle", DefaultLoc, loc)
                   ELSE /\ Jump(t, "ea_submit",
                                [l EXCEPT !.attempts = attempts, !.last = last], loc)
    /\ UNCHANGED <<stops, watchers, open_add_tracker, loss_tracker, state_tracker,
                   pending_reversal, lock, broker, alertsLeft, addsAdmitted>>

\* lines 381-384: the ADD order, then the settle sleep
execute_add_submit(t) ==
    /\ pc[t] = "ea_submit"
    /\ LET l == loc[t]
       IN  /\ orders' = submit_limit(orders, "buy", l.qty, l.entry)
           /\ attempt_tracker' =
                 [attempt_tracker EXCEPT !["sym_ADD"] = Put(l.attempts + 1)]
           /\ Jump(t, "ea_check", [l EXCEPT !.last = 0], loc)
    /\ addsAdmitted' = addsAdmitted + 1
    /\ UNCHANGED <<stops, watchers, open_add_tracker, loss_tracker, last_signal_price,
                   state_tracker, pending_reversal, lock, position, cost,
                   alertsLeft>>

\* lines 385-393 and 399: the fill after the sleep; without a retry or a cancel
\* the add is marked used at once
execute_add_check(t) ==
    /\ pc[t] = "ea_check"
    /\ LET l          == loc[t]
           filled_qty == safe_qty
           remaining  == l.qty - filled_qty
       IN  IF filled_qty <= 0
           THEN /\ Jump(t, "idle", DefaultLoc, loc)
                /\ UNCHANGED <<attempt_tracker, open_add_tracker>>
           ELSE IF filled_qty < l.qty
           THEN /\ open_add_tracker' = open_add_tracker
                /\ IF l.attempts < RetryLast /\ remaining > 0
                   THEN /\ attempt_tracker' =
                              [attempt_tracker EXCEPT !["sym_ADD"] = Put(l.attempts + 1)]
                        /\ Jump(t, "ea_retry",
                                [l EXCEPT !.remaining = remaining, !.attempts = 0], loc)
                   ELSE /\ attempt_tracker' = attempt_tracker
                        /\ Jump(t, "ea_cancel", DefaultLoc, loc)
           ELSE /\ attempt_tracker' = attempt_tracker
                /\ open_add_tracker' = TRUE
                /\ Jump(t, "ea_watch", DefaultLoc, loc)
    /\ UNCHANGED <<stops, watchers, loss_tracker, last_signal_price, state_tracker,
                   pending_reversal, lock, broker, alertsLeft, addsAdmitted>>

\* lines 394 or 397, then 399: the remaining quantity is submitted again, or the
\* partial ADD is accepted and the rest cancelled; the add is marked used
execute_add_rest(t) ==
    /\ pc[t] \in {"ea_retry", "ea_cancel"}
    /\ LET l == loc[t]
       IN  /\ orders' = IF pc[t] = "ea_retry"
                         THEN submit_limit(orders, "buy", l.remaining, l.entry)
                         ELSE cancel_all
           /\ Jump(t, "ea_watch", DefaultLoc, loc)
    /\ open_add_tracker' = TRUE
    /\ UNCHANGED <<stops, watchers, loss_tracker, attempt_tracker, last_signal_price,
                   state_tracker, pending_reversal, lock, position, cost,
                   alertsLeft, addsAdmitted>>

\* line 400: ensure_watcher(sym, source)
execute_add_watch(t) ==
    /\ pc[t] = "ea_watch"
    /\ lock = None
    /\ LET w == ensure_watcher
       IN  /\ watchers' = IF w = None THEN watchers ELSE Put(w)
           /\ pc' = Started(w, [pc EXCEPT ![t] = "idle"])
    /\ loc' = [loc EXCEPT ![t] = DefaultLoc]
    /\ alert' = [alert EXCEPT ![t] = NoAlert]
    /\ arrival' = [arrival EXCEPT ![t] = NoArrival]
    /\ UNCHANGED <<stops, open_add_tracker, loss_tracker, attempt_tracker,
                   last_signal_price, state_tracker, pending_reversal, lock, broker,
                   alertsLeft, addsAdmitted>>

(***************************************************************************)
(* managed_exit, lines 142-166, run by handle_exit (mark_stop_loss False)  *)
(* on an alert's thread and by stop_watcher (True) on the watcher's.       *)
(***************************************************************************)
\* lines 144-147: the quantity and the first price
managed_exit(t) ==
    /\ pc[t] = "me_start"
    /\ LET l   == loc[t]
           qty == IF safe_qty # 0 THEN safe_qty ELSE l.hint
           px  == round_tick(l.target)
           go  == [l EXCEPT !.qty = qty, !.px = px, !.loss0 = loss_tracker,
                            !.hint = 0, !.target = 0]
       IN  IF qty <= 0
           THEN /\ Jump(t, "idle", DefaultLoc, loc)
           ELSE /\ Jump(t, IF px <= 0 THEN "me_quote" ELSE "me_cancel", go, loc)
    /\ UNCHANGED <<prog, lock, broker, alertsLeft, addsAdmitted>>

\* lines 148-149: without a target price, the quote: px = round_tick(bid or ask)
managed_exit_quote(t, prices) ==
    /\ pc[t] = "me_quote"
    /\ \E p \in prices :
       LET bid == latest_bid_ask(p)[1]
           ask == latest_bid_ask(p)[2]
       IN  Jump(t, "me_cancel",
                [loc[t] EXCEPT !.px = round_tick(IF bid # 0 THEN bid ELSE ask)], loc)
    /\ UNCHANGED <<prog, lock, broker, alertsLeft, addsAdmitted>>

\* line 150
managed_exit_cancel(t) ==
    /\ pc[t] = "me_cancel"
    /\ orders' = cancel_all
    /\ Jump(t, "me_submit", loc[t], loc)
    /\ UNCHANGED <<prog, lock, position, cost, alertsLeft, addsAdmitted>>

\* the ladder's step, line 153
\* (ladder_step_sub: the sub-dollar step at every price)
ladder_step_sub(px) == StepSub

ladder_step(px) == IF px < Dollar THEN StepSub ELSE StepDollar

\* lines 151-153: the first sell order, the settle sleep, the step
managed_exit_submit(t) ==
    /\ pc[t] = "me_submit"
    /\ LET l == loc[t]
       IN  /\ orders' = submit_limit(orders, "sell", l.qty, l.px)
           /\ Jump(t, "me_loop",
                   [l EXCEPT !.step = ladder_step(l.px), !.sent = Put(round_tick(l.px)),
                             !.qty = 0],
                   loc)
    /\ UNCHANGED <<prog, lock, position, cost, alertsLeft, addsAdmitted>>

\* the price of the next iteration, line 155
reprice(px, step) == round_tick(px - step)

\* lines 154-155: while safe_qty(sym) > 0, the next lower price
managed_exit_loop(t) ==
    /\ pc[t] = "me_loop"
    /\ LET l == loc[t]
       IN  IF safe_qty > 0
           THEN /\ l.iter < MaxLadder
                /\ Jump(t, "me_reprice",
                        [l EXCEPT !.px = reprice(l.px, l.step), !.iter = l.iter + 1],
                        loc)
           ELSE Jump(t, "me_check",
                     [DefaultLoc EXCEPT !.mark = l.mark, !.loss0 = l.loss0,
                                        !.closed = TRUE], loc)
    /\ UNCHANGED <<prog, lock, broker, alertsLeft, addsAdmitted>>

\* line 156
managed_exit_recancel(t) ==
    /\ pc[t] = "me_reprice"
    /\ orders' = cancel_all
    /\ Jump(t, "me_resubmit", loc[t], loc)
    /\ UNCHANGED <<prog, lock, position, cost, alertsLeft, addsAdmitted>>

\* lines 157-158: the position is sold again at the lower price
managed_exit_resubmit(t) ==
    /\ pc[t] = "me_resubmit"
    /\ LET l == loc[t]
       IN  /\ orders' = submit_limit(orders, "sell", safe_qty, l.px)
           /\ Jump(t, "me_loop", [l EXCEPT !.sent = Put(round_tick(l.px))], loc)
    /\ UNCHANGED <<prog, lock, position, cost, alertsLeft, addsAdmitted>>

\* lines 159-160: only a flat position is cleaned up (update_pnl only logs)
managed_exit_check(t) ==
    /\ pc[t] = "me_check"
    /\ IF safe_qty <= 0
       THEN /\ Jump(t, "me_clean", loc[t], loc)
       ELSE /\ Jump(t, "idle", DefaultLoc, loc)
    /\ UNCHANGED <<prog, lock, broker, alertsLeft, addsAdmitted>>

\* lines 161-162: with lock: stops.pop(sym, None)
managed_exit_pop_stop(t) ==
    /\ pc[t] = "me_clean"
    /\ lock = None
    /\ lock' = t
    /\ stops' = Absent
    /\ Jump(t, "me_clean_add", loc[t], loc)
    /\ UNCHANGED <<watchers, open_add_tracker, loss_tracker, attempt_tracker,
                   last_signal_price, state_tracker, pending_reversal, broker,
                   alertsLeft, addsAdmitted>>

\* lines 163-164: open_add_tracker.pop(sym, None); the lock is released
managed_exit_pop_add(t) ==
    /\ pc[t] = "me_clean_add"
    /\ lock = t
    /\ lock' = None
    /\ open_add_tracker' = FALSE
    /\ IF loc[t].mark
       THEN /\ Jump(t, "me_loss", loc[t], loc)
       ELSE /\ Jump(t, "idle", DefaultLoc, loc)
    /\ UNCHANGED <<stops, watchers, loss_tracker, attempt_tracker, last_signal_price,
                   state_tracker, pending_reversal, broker, alertsLeft, addsAdmitted>>

\* record_loss(sym), lines 101-105, one critical section of `lock`
record_loss(n) == n + 1

\* line 164: if mark_stop_loss: record_loss(sym)
managed_exit_record_loss(t) ==
    /\ pc[t] = "me_loss"
    /\ lock = None
    /\ loss_tracker' = record_loss(loss_tracker)
    /\ Jump(t, "idle", DefaultLoc, loc)
    /\ UNCHANGED <<stops, watchers, open_add_tracker, attempt_tracker,
                   last_signal_price, state_tracker, pending_reversal, lock, broker,
                   alertsLeft, addsAdmitted>>

(***************************************************************************)
(* stop_watcher, lines 171-183.                                            *)
(***************************************************************************)
\* lines 174-178: after the sleep, the stop and the position
stop_watcher(w) ==
    /\ pc[w] = "sw_poll"
    /\ IF ~Has(stops) \/ safe_qty <= 0
       THEN /\ Jump(w, "idle", DefaultLoc, loc)
       ELSE /\ Jump(w, "sw_price", [DefaultLoc EXCEPT !.stop_price = Val(stops).stop], loc)
    /\ UNCHANGED <<prog, lock, broker, alertsLeft, addsAdmitted>>

\* line 179: last = last_trade_price(sym)
stop_watcher_price(w, prices) ==
    /\ pc[w] = "sw_price"
    /\ \E p \in prices :
       Jump(w, "sw_test", [loc[w] EXCEPT !.last = last_trade_price(p)], loc)
    /\ UNCHANGED <<prog, lock, broker, alertsLeft, addsAdmitted>>

\* line 180: the stop is hit when a price is known and at or below it
\* (stop_hit_known: at every known price)
stop_hit_known(last, stop_price) == last # 0

stop_hit(last, stop_price) == last # 0 /\ last <= stop_price

\* lines 180-181: to the exit on a hit, to the next sleep otherwise
stop_watcher_test(w) ==
    /\ pc[w] = "sw_test"
    /\ IF stop_hit(loc[w].last, loc[w].stop_price)
       THEN Jump(w, "sw_exit", loc[w], loc)
       ELSE Jump(w, "sw_poll", DefaultLoc, loc)
    /\ UNCHANGED <<prog, lock, broker, alertsLeft, addsAdmitted>>

\* line 182: managed_exit(sym, safe_qty(sym), stop_price, True, source)
stop_watcher_exit(w) ==
    /\ pc[w] = "sw_exit"
    /\ Jump(w, "me_start",
            [DefaultLoc EXCEPT !.hint = safe_qty, !.target = loc[w].stop_price,
                               !.mark = TRUE, !.ret = "idle"], loc)
    /\ UNCHANGED <<prog, lock, broker, alertsLeft, addsAdmitted>>

(***************************************************************************)
(* managed_exit's loop, lines 154-158, once the ladder has reached a price *)
(* the broker refuses (px <= 0): every further order is refused as well,   *)
(* so the price is no longer followed and the loop goes round unchanged.   *)
(***************************************************************************)
managed_exit_loop_refused(t) ==
    /\ pc[t] = "me_loop"
    /\ safe_qty > 0
    /\ loc[t].px <= 0
    /\ Jump(t, "me_reprice", loc[t], loc)
    /\ UNCHANGED <<prog, lock, broker, alertsLeft, addsAdmitted>>

(***************************************************************************)
(* The steps of a thread, by the function it is in.  prices: the answers   *)
(* the market data calls may give.                                         *)
(***************************************************************************)
ScalperSteps(t, prices) ==
    \/ execute_buy(t)
    \/ handle_alert_confirm(t)
    \/ place_entry_guard(t, prices)
    \/ place_entry_submit(t)
    \/ place_entry_check(t)
    \/ place_entry_rest(t)
    \/ place_entry_stops(t)
    \/ place_entry_watch(t)

HammerSteps(t, prices) ==
    \/ execute_buy_hammer(t, prices)
    \/ check_pending_reversal(t, prices)
    \/ check_pending_reversal_pop(t)

AddSteps(t, prices) ==
    \/ execute_add(t)
    \/ execute_add_guard(t, prices)
    \/ execute_add_submit(t)
    \/ execute_add_check(t)
    \/ execute_add_rest(t)
    \/ execute_add_watch(t)

ExitSteps(t) ==
    \/ managed_exit(t)
    \/ managed_exit_cancel(t)
    \/ managed_exit_submit(t)
    \/ managed_exit_loop(t)
    \/ managed_exit_recancel(t)
    \/ managed_exit_resubmit(t)
    \/ managed_exit_check(t)
    \/ managed_exit_pop_stop(t)
    \/ managed_exit_pop_add(t)

WatcherSteps(t, prices) ==
    \/ stop_watcher(t)
    \/ stop_watcher_price(t, prices)
    \/ stop_watcher_test(t)
    \/ stop_watcher_exit(t)
    \/ managed_exit_record_loss(t)

\* the handler thread of the specifications that handle one alert at a time
First == CHOOSE h \in Handlers : TRUE

(***************************************************************************)
(* Spec: BUY alerts of every source, on a candle inside and a candle       *)
(* outside the range limit, handled one after the other, with the stop     *)
(* watcher running beside them.                                            *)
(***************************************************************************)
SeqAlertSet ==
    {MkAlert("BUY", s, c, 0, 1) : s \in Sources, c \in {CandleOk, CandleWide}}

\* the stop and the buffered high of CandleOk
SeqPrices == {92000, 100200}

Init == InitN(SeqAlerts)

Next ==
    \/ tv(First, SeqAlertSet)
    \/ ScalperSteps(First, SeqPrices)
    \/ HammerSteps(First, SeqPrices)
    \/ \E t \in Watchers : ExitSteps(t) \/ WatcherSteps(t, SeqPrices)
    \/ FillBuy
    \/ FillSell

Spec == Init /\ [][Next]_vars

\* SpecRange: the steps of Spec over a shorter run of alerts
InitRange == InitN(MaxAlerts)

SpecRange == InitRange /\ [][Next]_vars

(***************************************************************************)
(* SpecPending: the same hammer-path BUY alert again and again, so that a  *)
(* stored reversal outlives entries, stop-outs and the retry cap.          *)
(***************************************************************************)
PendingAlerts == {MkAlert("BUY", "GENERIC", CandleOk, 0, 1)}

InitPending == InitN(LongAlerts)

NextPending ==
    \/ tv(First, PendingAlerts)
    \/ execute_buy(First)
    \/ place_entry_guard(First, SeqPrices)
    \/ place_entry_submit(First)
    \/ place_entry_check(First)
    \/ place_entry_rest(First)
    \/ place_entry_stops(First)
    \/ place_entry_watch(First)
    \/ HammerSteps(First, SeqPrices)
    \/ \E t \in Watchers : ExitSteps(t) \/ WatcherSteps(t, SeqPrices)
    \/ FillBuy
    \/ FillSell

SpecPending == InitPending /\ [][NextPending]_vars

(***************************************************************************)
(* SpecEntry: entries of two shares on both entry paths, on a candle on    *)
(* the cent grid and a candle off it.                                      *)
(***************************************************************************)
\* close 10.006 at the candle's low, high 10.05
CandleOff == [high |-> 100500, low |-> 100060, close |-> 100060]

EntryAlerts ==
    {MkAlert("BUY", s, c, 0, 2) :
        s \in {"ITG_SCALPER", "HAMMER_ENGULFING"}, c \in {CandleOk, CandleOff}}

\* the stop of CandleOk and a price at or above every entry
EntryPrices == {92000, 100700}

InitEntry == InitN(MaxAlerts)

NextEntry ==
    \/ tv(First, EntryAlerts)
    \/ ScalperSteps(First, EntryPrices)
    \/ HammerSteps(First, EntryPrices)
    \/ \E t \in Watchers : ExitSteps(t) \/ WatcherSteps(t, EntryPrices)
    \/ FillBuy
    \/ FillSell

SpecEntry == InitEntry /\ [][NextEntry]_vars

(***************************************************************************)
(* SpecExit: a position is opened and EXIT alerts close it, with or        *)
(* without a target price, above and below one dollar.                     *)
(***************************************************************************)
ExitAlerts ==
    {MkAlert("BUY", "ITG_SCALPER", CandleOk, 0, 1)}
      \cup {MkAlert("EXIT", "GENERIC_EXIT", CandleNone, p, 1) : p \in {0, 8, 10100, 100000}}

\* no quote, a quote below one dollar, the close of CandleOk
ExitPrices == {0, 9000, 100000}

InitExit == InitN(MaxAlerts)

NextExit ==
    \/ tv(First, ExitAlerts)
    \/ ScalperSteps(First, ExitPrices)
    \/ ExitSteps(First)
    \/ managed_exit_quote(First, ExitPrices)
    \/ \E t \in Watchers : ExitSteps(t) \/ WatcherSteps(t, ExitPrices)
    \/ FillBuy
    \/ FillSell

SpecExit == InitExit /\ [][NextExit]_vars

(***************************************************************************)
(* SpecLive: as SpecExit with a broker that fills no sell order, and       *)
(* every thread that can run does run (the interpreter switches threads    *)
(* at every blocking call).                                                *)
(***************************************************************************)
LiveAlerts ==
    {MkAlert("BUY", "ITG_SCALPER", CandleOk, 0, 1),
     MkAlert("EXIT", "GENERIC_EXIT", CandleNone, 8, 1)}

LivePrices == {100000}

HandlerLive ==
    \/ ScalperSteps(First, LivePrices)
    \/ ExitSteps(First)
    \/ managed_exit_loop_refused(First)

NextLive ==
    \/ tv(First, LiveAlerts)
    \/ HandlerLive
    \/ \E t \in Watchers :
          stop_watcher(t) \/ stop_watcher_price(t, LivePrices) \/ stop_watcher_test(t)
    \/ FillBuy

SpecLive == InitExit /\ [][NextLive]_vars /\ WF_vars(HandlerLive)

(***************************************************************************)
(* SpecConc: scalper entries and adds on two threads at once.              *)
(***************************************************************************)
\* close 9.98, low 9.20, high 9.98: the buffered high is the close of CandleOk
CandleAdd == [high |-> 99800, low |-> 92000, close |-> 99800]

ConcAlerts ==
    {MkAlert("BUY", "ITG_SCALPER", CandleOk, 0, 1),
     MkAlert("ADD", "ITG_SCALPER", CandleAdd, 0, 2)}

ConcPrices == {92000, 100000}

InitConc == InitN(MaxAlerts)

NextConc ==
    \/ \E t \in Handlers : tv(t, ConcAlerts)
    \/ \E t \in Handlers : ScalperSteps(t, ConcPrices) \/ AddSteps(t, ConcPrices)
    \/ \E t \in Watchers : ExitSteps(t) \/ WatcherSteps(t, ConcPrices)
    \/ FillBuy
    \/ FillSell

SpecConc == InitConc /\ [][NextConc]_vars

(***************************************************************************)
(* SpecRace: hammer-path BUY alerts on two threads at once, so that two    *)
(* alerts can find the same stored reversal.                               *)
(***************************************************************************)
InitRace == InitN(SeqAlerts)

NextRace ==
    \/ \E t \in Handlers : tv(t, PendingAlerts)
    \/ \E t \in Handlers :
          \/ execute_buy(t)
          \/ place_entry_guard(t, SeqPrices)
          \/ place_entry_submit(t)
          \/ place_entry_check(t)
          \/ place_entry_rest(t)
          \/ place_entry_stops(t)
          \/ place_entry_watch(t)
          \/ HammerSteps(t, SeqPrices)
    \/ \E t \in Watchers : ExitSteps(t) \/ WatcherSteps(t, SeqPrices)
    \/ FillBuy
    \/ FillSell

SpecRace == InitRace /\ [][NextRace]_vars

(***************************************************************************)
(* SpecAdds: as SpecConc, with an alert more, so that two ADD alerts can   *)
(* meet an open position.                                                  *)
(***************************************************************************)
InitAdds == InitN(SeqAlerts)

SpecAdds == InitAdds /\ [][NextConc]_vars

(***************************************************************************)
(* SpecLoss: scalper entries and EXIT alerts on two threads at once,       *)
(* beside the watcher's stop exit.                                         *)
(***************************************************************************)
LossAlerts ==
    {MkAlert("BUY", "ITG_SCALPER", CandleOk, 0, 1),
     MkAlert("EXIT", "GENERIC_EXIT", CandleNone, 100000, 1)}

NextLoss ==
    \/ \E t \in Handlers : tv(t, LossAlerts)
    \/ \E t \in Handlers : ScalperSteps(t, ConcPrices)
    \/ \E t \in Threads : ExitSteps(t)
    \/ \E t \in Watchers : WatcherSteps(t, ConcPrices)
    \/ FillBuy
    \/ FillSell

SpecLoss == InitConc /\ [][NextLoss]_vars

(***************************************************************************)
(* The claims.                                                             *)
(***************************************************************************)
PePcs == {"pe_guard", "pe_submit", "pe_check", "pe_retry", "pe_cancel",
          "pe_stops", "pe_watch"}

MePcs == {"me_start", "me_quote", "me_cancel", "me_submit", "me_loop",
          "me_reprice", "me_resubmit", "me_check", "me_clean", "me_clean_add",
          "me_loss"}

\* the thread is about to submit a limit-buy entry order (lines 247 and 257)
SubmitsEntry(t) == pc[t] \in {"pe_submit", "pe_retry"}

BuyResting(os) == \E o \in os : o.side = "buy"

Alive == {w \in Watchers : is_alive(w)}

\* C1: once the symbol's loss count has reached the cap of 2, no alert leads to
\* the submission of a limit-buy entry order, be it from execute_buy or from a
\* stored pending reversal that the alert triggers.
C1Lockout == \A t \in Handlers : arrival[t].capped => ~SubmitsEntry(t)

\* C2: a BUY alert handled while the position is non-flat (from its arrival
\* on) never causes a buy order to be submitted.
C2NoDoubleBuy ==
    \A t \in Handlers : (alert[t].act = "BUY" /\ arrival[t].held) => ~SubmitsEntry(t)

\* C3: at every reachable state at most one stop_watcher thread is alive,
\* whatever way entries and adds that call ensure_watcher interleave.
C3OneWatcher == Cardinality(Alive) <= 1

\* an entry and an add have both run ensure_watcher, and a watcher is alive
C3Witness ==
    /\ Alive # {}
    /\ state_tracker.first_trade_done
    /\ open_add_tracker
    /\ \A h \in Handlers : pc[h] = "idle"

\* C4: a stop-triggered exit (mark_stop_loss) that closed the position
\* returns with the loss count one above the count it started with, and no
\* step of a voluntary exit changes the loss count.
C4LossCount ==
    [][\A t \in Threads :
          /\ (pc[t] \in MePcs /\ loc[t].mark /\ loc[t].closed /\ pc'[t] = "idle")
                => loss_tracker' = loc[t].loss0 + 1
          /\ (pc[t] \in MePcs /\ ~loc[t].mark /\ pc'[t] # pc[t])
                => loss_tracker' = loss_tracker]_vars

\* C5: no entry order is submitted for, and no pending reversal is stored
\* from, a BUY signal whose candle range (close - low) / close exceeds 11 %,
\* whatever its source and the session state.
C5RangeGuard ==
    /\ \A t \in Handlers :
          pc[t] \in PePcs \cup {"eb_hammer"} =>
             LET c == IF pc[t] = "eb_hammer" THEN SigOf(alert[t]) ELSE loc[t].sig
             IN  (c.close - c.low) * 100 <= MaxRangePct * c.close
    /\ Has(pending_reversal) =>
          LET c == Val(pending_reversal).sig
          IN  (c.close - c.low) * 100 <= MaxRangePct * c.close

\* a scalper BUY outside the range limit was turned away before the first
\* trade (only that rejection sets waiting_for_reversal) and left nothing
C5Witness ==
    /\ state_tracker.waiting_for_reversal
    /\ orders = {}
    /\ ~Has(pending_reversal)
    /\ position = 0

\* C6: the stop price an admitted entry records in stops[symbol] is never
\* above the signal's reference close, inside and outside the open-auction
\* window, on the scalper and on the hammer path.
C6StopBelowClose ==
    [][\A t \in Handlers :
          (pc[t] = "pe_stops" /\ pc'[t] = "pe_watch")
             => Val(stops').stop <= loc[t].sig.close]_vars

\* C7: when _place_entry_with_retry returns after a partial fill (a position
\* of less than the requested quantity was seen after the settle sleep), the
\* unfilled remainder has been cancelled: no buy order for the symbol remains
\* resting at the broker.
C7RemainderCancelled ==
    [][\A t \in Handlers :
          (pc[t] = "pe_watch" /\ pc'[t] \notin PePcs
             /\ 0 < loc[t].filled /\ loc[t].filled < loc[t].qty)
             => ~BuyResting(orders')]_vars

\* C8: in managed_exit's ladder every limit-sell price submitted is strictly
\* lower than the price submitted the iteration before.
C8LadderDecreases ==
    \A t \in Threads :
       pc[t] = "me_resubmit" => round_tick(loc[t].px) < Val(loc[t].sent)

\* the ladder has repriced twice and the position is still open
C8Witness ==
    \E t \in Threads :
       /\ pc[t] = "me_loop"
       /\ loc[t].iter >= 2
       /\ Val(loc[t].sent) > 0
       /\ position > 0

\* C9: every managed_exit invocation terminates, also when the broker never
\* fills the sell orders.
C9ExitTerminates == (pc[First] = "me_start") ~> (pc[First] = "idle")

\* C10: between a position's opening and its return to flat at most one ADD
\* signal is admitted (submits a buy order), also when two ADD alerts are
\* handled at once.
C10OneAdd == addsAdmitted <= 1

\* C11: an ADD order is submitted only while the position is in profit: the
\* market price the ADD saw is above the position's average entry price.
C11AddInProfit ==
    \A t \in Handlers :
       pc[t] = "ea_submit" => (position > 0 /\ loc[t].last > avg_entry_price)

\* the thread has submitted the entry order of its own BUY alert (line 247)
\* and _place_entry_with_retry has not returned yet
EntrySubmitted(t) ==
    /\ alert[t].act = "BUY"
    /\ pc[t] \in PePcs \ {"pe_guard", "pe_submit"}
    /\ loc[t].ret # "cpr_ret"

\* C12: of two BUY alerts for the symbol handled at once, at most one passes
\* admission and submits entry orders.
C12SingleEntry == Cardinality({t \in Handlers : EntrySubmitted(t)}) <= 1

\* the shares asked for by the buy orders resting at the broker
RECURSIVE BuyQty(_)
BuyQty(os) ==
    IF os = {} THEN 0
    ELSE LET o == CHOOSE x \in os : TRUE
         IN  (IF o.side = "buy" THEN o.qty ELSE 0) + BuyQty(os \ {o})

\* C13: for one admitted BUY alert asking for Q shares (the first alert of the
\* run, so that every order and every share is its own), the buy orders live at
\* the broker plus the shares already filled never exceed Q.
C13QuantityCap ==
    \A t \in Handlers :
       (pc[t] \in PePcs /\ alertsLeft = MaxAlerts - 1)
          => BuyQty(orders) + position <= loc[t].qty

\* C14: the attempt counter of the symbol goes up by one on every buy-order
\* submission of _place_entry_with_retry, the first (line 247) and the
\* resubmission of the remainder (line 257).
C14AttemptsCounted ==
    [][\A t \in Handlers :
          (\/ pc[t] = "pe_submit" /\ pc'[t] = "pe_check"
           \/ pc[t] = "pe_check" /\ pc'[t] = "pe_retry")
             => Get(attempt_tracker'["sym"], 0) = Get(attempt_tracker["sym"], 0) + 1]_vars


\* C15: once the first trade of the session is done, no HAMMER_ENGULFING entry
\* order is submitted unless scalper_confirmed is true at the submission, on
\* every path to an entry, a stored pending reversal triggered later included.
C15HammerNeedsScalper ==
    \A t \in Handlers :
       (SubmitsEntry(t) /\ loc[t].source = "HAMMER_ENGULFING"
          /\ state_tracker.first_trade_done)
            => state_tracker.scalper_confirmed


\* C17: scalper_confirmed becomes true only through an ITG_SCALPER BUY whose
\* own entry was executed (an order submitted by its own call of the placer and
\* a position held); a scalper BUY rejected by the gate never sets it.
C17ConfirmedByOwnEntry ==
    [][(~state_tracker.scalper_confirmed /\ state_tracker'.scalper_confirmed)
          => \E t \in Handlers :
                /\ alert[t].act = "BUY" /\ alert[t].src = "ITG_SCALPER"
                /\ \/ pc[t] = "pe_watch" /\ loc[t].ret = "ha_post"
                   \/ pc[t] = "ha_post" /\ loc[t].entered
                /\ pc'[t] # pc[t]]_vars


\* the thread is in the placer for a stored pending reversal it triggered
Triggered(t) == pc[t] \in PePcs /\ loc[t].ret = "cpr_ret" /\ Has(loc[t].pr)

\* C18: a stored pending reversal triggers the entry placer at most once: no
\* two alerts, handled one after the other or at once, execute the same
\* stored BUY.
C18TriggeredOnce ==
    \A t, u \in Handlers :
       (t # u /\ Triggered(t) /\ Triggered(u))
          => Val(loc[t].pr).oid # Val(loc[u].pr).oid


\* an alert is being handled, or the watcher is in its exit
InProgress ==
    \/ \E t \in Handlers : pc[t] # "idle"
    \/ \E w \in Watchers : pc[w] \in MePcs \cup {"sw_exit"}

\* C19: no open position is left unsupervised: whenever the position is
\* positive and no Entry or Exit Executor call is in progress, a stop is
\* recorded and a stop_watcher thread is alive.
C19Supervised ==
    (position > 0 /\ ~InProgress) => (Has(stops) /\ Alive # {})


\* C20: every limit price managed_exit passes to submit_limit is strictly
\* positive, after any number of ladder steps and also when no target price
\* is given and the quote is unavailable.
C20ExitPricePositive ==
    \A t \in Threads :
       pc[t] \in {"me_submit", "me_resubmit"} => round_tick(loc[t].px) > 0


\* C16: a watcher that observes a price at or below the recorded stop invokes
\* managed_exit with mark_stop_loss = True and terminates when it returns; it
\* invokes managed_exit on no other occasion, and it terminates without
\* invoking it when it finds the position at zero.
C16StopWatcher ==
    /\ [](\A w \in Watchers :
            /\ pc[w] = "sw_exit"
                 => (loc[w].last > 0 /\ loc[w].last <= loc[w].stop_price)
            /\ pc[w] \in MePcs => loc[w].mark)
    /\ [][\A w \in Watchers :
            /\ (pc[w] = "sw_test" /\ pc'[w] # "sw_test")
                 => IF loc[w].last > 0 /\ loc[w].last <= loc[w].stop_price
                    THEN pc'[w] = "sw_exit"
                    ELSE pc'[w] = "sw_poll"
            /\ (pc[w] = "sw_exit" /\ pc'[w] # "sw_exit")
                 => (pc'[w] = "me_start" /\ loc'[w].mark
                       /\ loc'[w].target = loc[w].stop_price)
            /\ (pc'[w] = "me_start" /\ pc[w] # "me_start") => pc[w] = "sw_exit"
            /\ (pc[w] \in MePcs /\ pc'[w] \notin MePcs) => pc'[w] = "idle"
            /\ (pc[w] = "sw_poll" /\ position <= 0 /\ pc'[w] # "sw_poll")
                 => pc'[w] = "idle"]_vars

\* a watcher saw the stop hit, sold the position and is about to count the loss
C16Witness ==
    \E w \in Watchers : pc[w] = "me_loss" /\ loc[w].mark /\ position = 0

=============================================================================
